---- MODULE Spec2Model ----
(***************************************************************************)
(* State-machine model of the routes of Proyecto-Inventario                *)
(* (src/routes/index.js) that touch stock and sales: cart checkout         *)
(* (POST /ventas/finalizar), quick sale (POST /productos/vender/:id),      *)
(* stock update (POST /productos/actualizar-stock/:id), product creation   *)
(* and deletion (POST /productos/crear, /productos/eliminar/:id),          *)
(* category deletion (POST /categorias/eliminar/:id) and the dashboard     *)
(* (GET /) with its two aggregate queries, over the Producto, Categoria    *)
(* and Venta collections (Venta is the sale ledger).                       *)
(*                                                                         *)
(* A request advances one store operation (one `await`) per step; the      *)
(* synchronous code that follows an await up to the next one belongs to    *)
(* the same step.  Several requests interleave at these steps.             *)
(*                                                                         *)
(* Specifications:                                                         *)
(*   Spec      NumReq sale requests, interleaved, over a reliable store    *)
(*   SpecSolo  one sale request run alone                                  *)
(*   SpecAdm   one sale request among stock updates and deletions          *)
(*   SpecLibro SpecAdm with product creations and category deletions,      *)
(*             over a ledger that may already hold a sale                  *)
(*   SpecVista one sale request, category deletions and one GET /          *)
(*   SpecF     Spec over a store whose operations can throw                *)
(*   SpecVivo  SpecF with a failing abort, under weak fairness             *)
(***************************************************************************)
EXTENDS Integers, Sequences, FiniteSets, TLC

\* ------------------------------------------------------------------ bounds
NumProductos == 2      \* product ids 1..NumProductos
MaxStock     == 2      \* initial cantidad of a product is 0..MaxStock
MaxCant      == 2      \* largest quantity a request asks for
MaxCart      == 2      \* longest cart
NumReq       == 2      \* sale requests per behaviour
MaxAdm       == 2      \* stock updates and deletions per behaviour
NumCategorias == 2     \* category ids 1..NumCategorias

Ids  == 1..NumProductos
Reqs == 1..NumReq

\* Quantities a JSON cart line can carry (express.json keeps numbers as sent).
CantVals == {-1} \cup (1..MaxCant)

\* ------------------------------------------------------- parseInt(s, 10)
\* A form field is a string, modelled as a sequence of one-character strings.
DigitChars == <<"0", "1", "2", "3", "4", "5", "6", "7", "8", "9">>

IsDigit(c) == \E k \in 1..10 : DigitChars[k] = c

DigitVal(c) == (CHOOSE k \in 1..10 : DigitChars[k] = c) - 1

\* Value of the maximal digit prefix of s starting at position k, given the
\* value acc read so far; seen tells whether a digit was read.
RECURSIVE LeerDigitos(_, _, _, _)
LeerDigitos(s, k, acc, seen) ==
    IF k <= Len(s) /\ IsDigit(s[k])
    THEN LeerDigitos(s, k + 1, 10 * acc + DigitVal(s[k]), TRUE)
    ELSE [nan |-> ~seen, n |-> acc]

RECURSIVE SaltarBlancos(_, _)
SaltarBlancos(s, k) ==
    IF k <= Len(s) /\ s[k] = " " THEN SaltarBlancos(s, k + 1) ELSE k

\* parseInt(s, 10): leading blanks, an optional sign, then decimal digits up
\* to the first other character; NaN when no digit was read.
parseInt(s) ==
    LET k0   == SaltarBlancos(s, 1)
        neg  == k0 <= Len(s) /\ s[k0] = "-"
        sign == k0 <= Len(s) /\ (s[k0] = "-" \/ s[k0] = "+")
        r    == LeerDigitos(s, IF sign THEN k0 + 1 ELSE k0, 0, FALSE)
    IN  [nan |-> r.nan, n |-> IF neg THEN 0 - r.n ELSE r.n]

\* Form values of req.body.cantidad sent to the quick sale.
CantidadesForm ==
    {<< >>, <<"x">>, <<"0">>, <<"-", "1">>}
        \cup {<<DigitChars[n + 1]>> : n \in 1..MaxCant}

\* ------------------------------------------------------------------ state
VARIABLES
    productos,   \* Producto collection: id -> document, for the ids that exist
    ventas,      \* Venta collection (the ledger), in insertion order
    pc,          \* per request: the await it is suspended at
    ruta,        \* per request: "finalizar" or "vender"
    body,        \* per request: what the client sent
    loc,         \* per request: the handler's local variables
    session,     \* per request: its MongoDB transaction
    res,         \* per request: the response sent
    inicial,     \* the Producto collection of the initial state (history)
    adm,         \* the last stock update or product deletion, and their count
    categorias,  \* Categoria collection: the ids of the categories that exist
    vista        \* the GET / request: its position and what it has computed

vars == <<productos, ventas, pc, ruta, body, loc, session, res, inicial, adm,
          categorias, vista>>

\* A Producto document (schema of src/models/Producto.js); _id is kept as id.
Doc(p, n) == [id |-> p, nombre |-> <<"producto", p>>, precio |-> p + 1,
              cantidad |-> n, categoriaID |-> 1]

DocNulo == [id |-> 0, nombre |-> << >>, precio |-> 0, cantidad |-> 0,
            categoriaID |-> 0]

\* Producto.findById(id): the document, or null.
findById(id) == IF id \in DOMAIN productos THEN productos[id] ELSE DocNulo

\* Mutant: the document read is never taken for null.
EsNuloNunca(d) == FALSE

EsNulo(d) == d.id = 0

\* A transaction: activa once its first operation has taken the snapshot;
\* inc are its uncommitted $inc per document, docs the documents it has
\* written (and holds locked), sucios the documents others have written since
\* its snapshot, venta its uncommitted ledger insert.
SesionNula == [activa |-> FALSE, inc |-> [p \in Ids |-> 0], docs |-> {},
               sucios |-> {}, venta |-> << >>]

LocNulo == [i |-> 0, productosVendidos |-> << >>, totalVenta |-> 0,
            producto |-> DocNulo, cantidadVenta |-> 0]

BodyNulo == [tieneCart |-> FALSE, cart |-> << >>]

\* The ids of the categories; every stored product names one of them.
CatIds == 1..NumCategorias

\* No GET / has been requested yet.
VistaNula == [pc |-> "-", existenciasPorCategoria |-> {},
              existencias |-> << >>, totalVendido |-> 0]

\* No stock update and no deletion has been requested yet.
AdmNulo == [ruta |-> "-", id |-> 0, cantidad |-> << >>, res |-> "-", n |-> 0]

Lineas == [id : Ids, cantidad : CantVals]

Carts == UNION {[1..n -> Lineas] : n \in 0..MaxCart}

\* req.body of POST /ventas/finalizar: with a cart, or without one.
BodiesCart == {BodyNulo} \cup {[tieneCart |-> TRUE, cart |-> c] : c \in Carts}

\* The stores a behaviour can start from: any subset of the ids exists, each
\* with a stock the schema accepts (cantidad >= 0).
Init ==
    /\ \E E \in SUBSET Ids : \E st \in [E -> 0..MaxStock] :
          productos = [p \in E |-> Doc(p, st[p])]
    /\ inicial = productos
    /\ ventas = << >>
    /\ pc = [r \in Reqs |-> "idle"]
    /\ ruta = [r \in Reqs |-> "-"]
    /\ body = [r \in Reqs |-> BodyNulo]
    /\ loc = [r \in Reqs |-> LocNulo]
    /\ session = [r \in Reqs |-> SesionNula]
    /\ res = [r \in Reqs |-> "-"]
    /\ adm = AdmNulo
    /\ categorias = CatIds
    /\ vista = VistaNula

\* Requests arrive in the order of their numbers (they are interchangeable).
PuedeLlegar(r) == pc[r] = "idle" /\ \A q \in Reqs : q < r => pc[q] # "idle"

\* The response is sent and the handler returns: its locals are gone.
Responder(r, codigo) ==
    /\ pc' = [pc EXCEPT ![r] = "fin"]
    /\ res' = [res EXCEPT ![r] = codigo]
    /\ loc' = [loc EXCEPT ![r] = LocNulo]

\* A committed write of the documents ids by request r: every other open
\* transaction has them changed under its snapshot.
Ensuciar(ses, ids, r) ==
    [q \in Reqs |-> IF q # r /\ ses[q].activa
                    THEN [ses[q] EXCEPT !.sucios = @ \cup ids]
                    ELSE ses[q]]

\* Another request's transaction has written p and not yet ended.
Bloqueado(p, r) == \E q \in Reqs \ {r} : p \in session[q].docs

\* ------------------------------------------ POST /ventas/finalizar (cart)
\* Mutant: the length of the cart is not looked at.
CarritoVacioSinLongitud(b) == ~b.tieneCart

CarritoVacio(b) == ~b.tieneCart \/ Len(b.cart) = 0

\* Mutant: the comparison is written the wrong way round.
StockInsuficienteInvertido(doc, cant) == cant < doc.cantidad

StockInsuficiente(doc, cant) == doc.cantidad < cant

\* Mutant: the subtotal is the unit price, whatever the quantity.
ItemSinCantidad(doc, cant) ==
    [productoID |-> doc.id, nombre |-> doc.nombre,
     precioUnitario |-> doc.precio, cantidad |-> cant,
     subtotal |-> doc.precio]

Item(doc, cant) == [productoID |-> doc.id, nombre |-> doc.nombre,
                    precioUnitario |-> doc.precio, cantidad |-> cant,
                    subtotal |-> cant * doc.precio]

\* The request arrives; an empty or missing cart is answered at once.
Finalizar(r) ==
    /\ PuedeLlegar(r)
    /\ \E b \in BodiesCart :
        /\ body' = [body EXCEPT ![r] = b]
        /\ ruta' = [ruta EXCEPT ![r] = "finalizar"]
        /\ IF CarritoVacio(b)
           THEN Responder(r, "400 carrito vacio")
           ELSE /\ pc' = [pc EXCEPT ![r] = "validar"]
                /\ loc' = [loc EXCEPT ![r] = [LocNulo EXCEPT !.i = 1]]
                /\ res' = res
    /\ UNCHANGED <<productos, ventas, session, inicial, adm, categorias, vista>>

\* One turn of the validation loop: the read of line i and what follows it.
Validar(r) ==
    /\ pc[r] = "validar"
    /\ loc[r].i <= Len(body[r].cart)
    /\ LET item == body[r].cart[loc[r].i]
           producto == findById(item.id)
       IN  IF EsNulo(producto)
           THEN Responder(r, "404 no encontrado")
           ELSE IF StockInsuficiente(producto, item.cantidad)
           THEN Responder(r, "400 stock insuficiente")
           ELSE /\ loc' = [loc EXCEPT
                     ![r].productosVendidos = Append(@, Item(producto, item.cantidad)),
                     ![r].totalVenta = @ + item.cantidad * producto.precio,
                     ![r].i = IF @ = Len(body[r].cart) THEN 1 ELSE @ + 1]
                /\ pc' = [pc EXCEPT ![r] =
                     IF loc[r].i = Len(body[r].cart) THEN "inc" ELSE "validar"]
                /\ res' = res
    /\ UNCHANGED <<productos, ventas, ruta, body, session, inicial, adm,
                   categorias, vista>>

\* The transaction's write to document p conflicts: p changed after the
\* snapshot, or another transaction holds it.
Conflicto(r, p) == p \in session[r].sucios \/ Bloqueado(p, r)

\* Mutant: the write sets the pending change instead of adding to it.
IncrementarSinAcumular(s, p, cant) ==
    [s EXCEPT !.activa = TRUE,
              !.inc = [@ EXCEPT ![p] = 0 - cant],
              !.docs = @ \cup {p}]

\* What the $inc of -cant on p leaves pending in transaction s.
Incrementar(s, p, cant) ==
    [s EXCEPT !.activa = TRUE,
              !.inc = [@ EXCEPT ![p] = @ - cant],
              !.docs = @ \cup {p}]

\* One turn of the decrement loop: findByIdAndUpdate(item.id, $inc) in the
\* session.  A write conflict throws: the server aborts the transaction and
\* the handler answers 500.
Inc(r) ==
    /\ pc[r] = "inc"
    /\ LET item == body[r].cart[loc[r].i]
       IN  IF Conflicto(r, item.id)
           THEN /\ session' = [session EXCEPT ![r] = SesionNula]
                /\ Responder(r, "500 transaccion")
           ELSE /\ session' = [session EXCEPT ![r] =
                     IF item.id \in DOMAIN productos
                     THEN Incrementar(@, item.id, item.cantidad)
                     ELSE [@ EXCEPT !.activa = TRUE]]
                /\ loc' = [loc EXCEPT ![r].i = @ + 1]
                /\ pc' = [pc EXCEPT ![r] =
                     IF loc[r].i = Len(body[r].cart) THEN "guardar" ELSE "inc"]
                /\ res' = res
    /\ UNCHANGED <<productos, ventas, ruta, body, inicial, adm, categorias, vista>>

\* Mutant: the insert puts the new documents before the stored ones.
insertarAlFrente(l, docs) == docs \o l

\* The Venta collection after the insert of docs: the stored documents stay
\* as they are, in their order.
insertar(l, docs) == l \o docs

NuevaVenta(items, total) == [productosVendidos |-> items, totalVenta |-> total]

\* nuevaVenta.save({ session }): the insert stays pending in the transaction.
GuardarVenta(r) ==
    /\ pc[r] = "guardar"
    /\ session' = [session EXCEPT ![r].venta =
           <<NuevaVenta(loc[r].productosVendidos, loc[r].totalVenta)>>]
    /\ pc' = [pc EXCEPT ![r] = "commit"]
    /\ UNCHANGED <<productos, ventas, ruta, body, loc, res, inicial, adm,
                   categorias, vista>>

\* The Producto collection after transaction s commits.
AplicarInc(prods, s) ==
    [p \in DOMAIN prods |->
        IF p \in s.docs THEN [prods[p] EXCEPT !.cantidad = @ + s.inc[p]]
        ELSE prods[p]]

\* session.commitTransaction(): every pending write becomes visible at once.
Commit(r) ==
    /\ pc[r] = "commit"
    /\ productos' = AplicarInc(productos, session[r])
    /\ ventas' = insertar(ventas, session[r].venta)
    /\ session' = [Ensuciar(session, session[r].docs, r) EXCEPT ![r] = SesionNula]
    /\ Responder(r, "200 ok")
    /\ UNCHANGED <<ruta, body, inicial, adm, categorias, vista>>

\* ------------------------------------- POST /productos/vender/:id (quick sale)
CantidadInvalida(c) == c.nan \/ c.n <= 0

\* req.params.id and the form field req.body.cantidad.
BodiesVender == [id : Ids, cantidad : CantidadesForm]

\* The request arrives; a quantity that is no number above zero is answered
\* at once.
Vender(r) ==
    /\ PuedeLlegar(r)
    /\ \E b \in BodiesVender :
        /\ body' = [body EXCEPT ![r] = b]
        /\ ruta' = [ruta EXCEPT ![r] = "vender"]
        /\ LET cantidadVenta == parseInt(b.cantidad)
           IN  IF CantidadInvalida(cantidadVenta)
               THEN Responder(r, "400 cantidad invalida")
               ELSE /\ pc' = [pc EXCEPT ![r] = "buscar"]
                    /\ loc' = [loc EXCEPT ![r] =
                          [LocNulo EXCEPT !.cantidadVenta = cantidadVenta.n]]
                    /\ res' = res
    /\ UNCHANGED <<productos, ventas, session, inicial, adm, categorias, vista>>

\* Producto.findById(productoId) and the checks on what it returned.
VenderBuscar(r) ==
    /\ pc[r] = "buscar"
    /\ LET producto == findById(body[r].id)
       IN  IF EsNulo(producto)
           THEN Responder(r, "404 no encontrado")
           ELSE IF StockInsuficiente(producto, loc[r].cantidadVenta)
           THEN Responder(r, "400 stock insuficiente")
           ELSE /\ loc' = [loc EXCEPT
                     ![r].producto = producto,
                     ![r].totalVenta = producto.precio * loc[r].cantidadVenta]
                /\ pc' = [pc EXCEPT ![r] = "guardarVenta"]
                /\ res' = res
    /\ UNCHANGED <<productos, ventas, ruta, body, session, inicial, adm,
                   categorias, vista>>

\* nuevaVenta.save(): the ledger insert, outside any transaction; then
\* producto.cantidad -= cantidadVenta on the document read earlier.
VenderGuardarVenta(r) ==
    /\ pc[r] = "guardarVenta"
    /\ ventas' = insertar(ventas,
          <<NuevaVenta(<<Item(loc[r].producto, loc[r].cantidadVenta)>>,
                       loc[r].totalVenta)>>)
    /\ loc' = [loc EXCEPT ![r].producto.cantidad = @ - loc[r].cantidadVenta]
    /\ pc' = [pc EXCEPT ![r] = "guardarProducto"]
    /\ UNCHANGED <<productos, ruta, body, session, res, inicial, adm,
                   categorias, vista>>

\* The Producto collection after doc.save() of a document whose cantidad was
\* modified: the stored field is set to the document's value.
GuardarDoc(prods, doc) == [prods EXCEPT ![doc.id].cantidad = doc.cantidad]

\* producto.save(): waits while a transaction holds the document; throws
\* when the document no longer exists (caught: 500).
VenderGuardarProducto(r) ==
    /\ pc[r] = "guardarProducto"
    /\ ~Bloqueado(loc[r].producto.id, r)
    /\ IF loc[r].producto.id \in DOMAIN productos
       THEN /\ productos' = GuardarDoc(productos, loc[r].producto)
            /\ session' = Ensuciar(session, {loc[r].producto.id}, r)
            /\ Responder(r, "200 ok")
       ELSE /\ UNCHANGED <<productos, session>>
            /\ Responder(r, "500 interno")
    /\ UNCHANGED <<ventas, ruta, body, inicial, adm, categorias, vista>>

\* ---------------------------------------------------------- specification
Next ==
    \E r \in Reqs :
        \/ Finalizar(r)
        \/ Validar(r)
        \/ Inc(r)
        \/ GuardarVenta(r)
        \/ Commit(r)
        \/ Vender(r)
        \/ VenderBuscar(r)
        \/ VenderGuardarVenta(r)
        \/ VenderGuardarProducto(r)

Spec == Init /\ [][Next]_vars

\* One sale request and no other: the slots of the other requests are never
\* used.
InitSolo ==
    /\ \E E \in SUBSET Ids : \E st \in [E -> 0..MaxStock] :
          productos = [p \in E |-> Doc(p, st[p])]
    /\ inicial = productos
    /\ ventas = << >>
    /\ pc = [r \in Reqs |-> IF r = 1 THEN "idle" ELSE "ausente"]
    /\ ruta = [r \in Reqs |-> "-"]
    /\ body = [r \in Reqs |-> BodyNulo]
    /\ loc = [r \in Reqs |-> LocNulo]
    /\ session = [r \in Reqs |-> SesionNula]
    /\ res = [r \in Reqs |-> "-"]
    /\ adm = AdmNulo
    /\ categorias = CatIds
    /\ vista = VistaNula

SpecSolo == InitSolo /\ [][Next]_vars

\* ------------------------- stock update and product deletion (one await each)
StockInvalido(c) == c.nan \/ c.n < 0

\* Mutant: the update has no filter and sets the cantidad of every document.
FijarCantidadATodos(prods, id, n) ==
    [p \in DOMAIN prods |-> [prods[p] EXCEPT !.cantidad = n]]

\* The Producto collection after findByIdAndUpdate(id, { cantidad: n }).
FijarCantidad(prods, id, n) == [prods EXCEPT ![id].cantidad = n]

\* The Producto collection after findByIdAndDelete(id).
Borrar(prods, id) == [p \in (DOMAIN prods) \ {id} |-> prods[p]]

\* POST /productos/actualizar-stock/:id.  The write waits while a
\* transaction holds the document.
ActualizarStock ==
    /\ adm.n < MaxAdm
    /\ \E id \in Ids, c \in CantidadesForm :
        LET nuevoStock == parseInt(c)
            hecho(codigo) == [ruta |-> "actualizar-stock", id |-> id,
                              cantidad |-> c, res |-> codigo, n |-> adm.n + 1]
        IN  IF StockInvalido(nuevoStock)
            THEN /\ adm' = hecho("err stock invalido")
                 /\ UNCHANGED <<productos, session>>
            ELSE IF id \in DOMAIN productos
            THEN /\ ~Bloqueado(id, 0)
                 /\ productos' = FijarCantidad(productos, id, nuevoStock.n)
                 /\ session' = Ensuciar(session, {id}, 0)
                 /\ adm' = hecho("msg stock actualizado")
            ELSE /\ adm' = hecho("err no encontrado")
                 /\ UNCHANGED <<productos, session>>
    /\ UNCHANGED <<ventas, pc, ruta, body, loc, res, inicial, categorias,
                   vista>>

\* POST /productos/eliminar/:id.
Eliminar ==
    /\ adm.n < MaxAdm
    /\ \E id \in Ids :
        LET hecho(codigo) == [ruta |-> "eliminar", id |-> id,
                              cantidad |-> << >>, res |-> codigo, n |-> adm.n + 1]
        IN  IF id \in DOMAIN productos
            THEN /\ ~Bloqueado(id, 0)
                 /\ productos' = Borrar(productos, id)
                 /\ session' = Ensuciar(session, {id}, 0)
                 /\ adm' = hecho("msg eliminado")
            ELSE /\ adm' = hecho("err no encontrado")
                 /\ UNCHANGED <<productos, session>>
    /\ UNCHANGED <<ventas, pc, ruta, body, loc, res, inicial, categorias,
                   vista>>

NextAdm ==
    \/ Next
    \/ ActualizarStock
    \/ Eliminar

\* One sale request among stock updates and product deletions.
SpecAdm == InitSolo /\ [][NextAdm]_vars

\* ----------------------- product creation and category deletion (one await)
\* Values of the cantidad field of a new product, after the schema's cast.
CantidadesNuevas == {-1} \cup (0..MaxStock)

\* Product id p is named by a request or by a sale record.
Referido(p) ==
    \/ \E r \in Reqs :
          \/ /\ ruta[r] = "finalizar"
             /\ \E k \in 1..Len(body[r].cart) : body[r].cart[k].id = p
          \/ ruta[r] = "vender" /\ body[r].id = p
    \/ \E k \in 1..Len(ventas) :
          \E j \in 1..Len(ventas[k].productosVendidos) :
              ventas[k].productosVendidos[j].productoID = p

\* The ids a new document can get: ids no document has or had and nothing
\* names (an ObjectId is generated fresh).
IdsLibres == {p \in Ids : /\ p \notin DOMAIN productos
                          /\ p \notin DOMAIN inicial
                          /\ ~Referido(p)}

\* The Producto collection after the insert of doc.
Crear(prods, doc) ==
    [p \in (DOMAIN prods) \cup {doc.id} |->
        IF p = doc.id THEN doc ELSE prods[p]]

\* POST /productos/crear: new Producto(req.body).save(), with the schema's
\* validators (cantidad min 0); a validation error renders the form again.
CrearProducto ==
    /\ adm.n < MaxAdm
    /\ \E id \in IdsLibres, n \in CantidadesNuevas, c \in CatIds :
        LET hecho(codigo) == [ruta |-> "crear", id |-> id,
                              cantidad |-> << >>, res |-> codigo, n |-> adm.n + 1]
        IN  IF n < 0
            THEN /\ adm' = hecho("err validacion")
                 /\ productos' = productos
            ELSE /\ adm' = hecho("msg creado")
                 /\ productos' =
                       Crear(productos, [Doc(id, n) EXCEPT !.categoriaID = c])
    /\ UNCHANGED <<ventas, pc, ruta, body, loc, session, res, inicial,
                   categorias, vista>>

\* POST /categorias/eliminar/:id: Categoria.findByIdAndDelete; the products
\* of the category are not looked at.
EliminarCategoria ==
    /\ adm.n < MaxAdm
    /\ \E c \in CatIds :
        LET hecho(codigo) == [ruta |-> "categorias/eliminar", id |-> c,
                              cantidad |-> << >>, res |-> codigo, n |-> adm.n + 1]
        IN  IF c \in categorias
            THEN /\ adm' = hecho("msg eliminada")
                 /\ categorias' = categorias \ {c}
            ELSE /\ adm' = hecho("err no encontrada")
                 /\ categorias' = categorias
    /\ UNCHANGED <<productos, ventas, pc, ruta, body, loc, session, res,
                   inicial, vista>>

\* The sale record of a quick sale of one unit of product 1 that ended
\* before the behaviour starts.
VentaAnterior == NuevaVenta(<<Item(Doc(1, 1), 1)>>, Doc(1, 1).precio * 1)

\* As InitSolo, with a ledger that is empty or holds an earlier sale.
InitLibro ==
    /\ \E E \in SUBSET Ids : \E st \in [E -> 0..MaxStock] :
          productos = [p \in E |-> Doc(p, st[p])]
    /\ inicial = productos
    /\ ventas \in {<< >>, <<VentaAnterior>>}
    /\ pc = [r \in Reqs |-> IF r = 1 THEN "idle" ELSE "ausente"]
    /\ ruta = [r \in Reqs |-> "-"]
    /\ body = [r \in Reqs |-> BodyNulo]
    /\ loc = [r \in Reqs |-> LocNulo]
    /\ session = [r \in Reqs |-> SesionNula]
    /\ res = [r \in Reqs |-> "-"]
    /\ adm = AdmNulo
    /\ categorias = CatIds
    /\ vista = VistaNula

NextLibro ==
    \/ NextAdm
    \/ CrearProducto
    \/ EliminarCategoria

\* One sale request among stock updates, product creations and deletions and
\* category deletions, over a ledger that may already hold a sale.
SpecLibro == InitLibro /\ [][NextLibro]_vars

\* ------------------------------------- GET / and its two aggregate queries
\* A Categoria document: its name is unique among the categories.
Categoria(c) == [id |-> c, nombre |-> <<"categoria", c>>]

\* Mutant: the documents are counted, their cantidad is not added up.
SumaCantidadesCuenta(prods, S) == Cardinality(S)

\* $sum of cantidad over the documents S of prods.
RECURSIVE SumaCantidades(_, _)
SumaCantidades(prods, S) ==
    IF S = {} THEN 0
    ELSE LET p == CHOOSE x \in S : TRUE
         IN  prods[p].cantidad + SumaCantidades(prods, S \ {p})

\* Mutant: the $lookup finds a category for every group, deleted or not.
lookupSinFiltro(g, cats) == {Categoria(g)}

\* $lookup: the documents of categorias whose _id is the group's _id.
lookup(g, cats) == {Categoria(c) : c \in cats \cap {g}}

\* calcularExistenciasPorCategoria: $group by categoriaID summing cantidad,
\* $lookup of the category, $unwind (a group whose category is not found is
\* dropped), $project of the name and the sum.
calcularExistenciasPorCategoria(prods, cats) ==
    LET grupos == {[id |-> g,
                    totalExistencias |->
                        SumaCantidades(prods,
                            {p \in DOMAIN prods : prods[p].categoriaID = g}),
                    categoriaInfo |-> lookup(g, cats)] :
                   g \in {prods[p].categoriaID : p \in DOMAIN prods}}
    IN  UNION {{[id |-> g.id, nombre |-> info.nombre,
                 totalExistencias |-> g.totalExistencias] :
                    info \in g.categoriaInfo} : g \in grupos}

\* existenciasMap: the reduce that makes acc[curr.nombre] = curr.totalExistencias.
existenciasMap(existencias) ==
    [n \in {e.nombre : e \in existencias} |->
        (CHOOSE e \in existencias : e.nombre = n).totalExistencias]

\* Mutant: the last document's total instead of the sum.
totalGlobalUltimo(l) == IF l = << >> THEN 0 ELSE l[Len(l)].totalVenta

\* $group with _id null and $sum of totalVenta over the documents of l.
RECURSIVE totalGlobal(_)
totalGlobal(l) ==
    IF l = << >> THEN 0 ELSE Head(l).totalVenta + totalGlobal(Tail(l))

\* calcularTotalVendido: the aggregate gives no document for an empty
\* collection and one document otherwise.
calcularTotalVendido(l) ==
    LET resultado == IF Len(l) = 0 THEN << >>
                     ELSE <<[id |-> 0, totalGlobal |-> totalGlobal(l)]>>
    IN  IF Len(resultado) > 0 THEN resultado[1].totalGlobal ELSE 0

\* GET / arrives: Producto.find().populate('categoriaID').
Inicio ==
    /\ vista.pc = "-"
    /\ vista' = [vista EXCEPT !.pc = "existencias"]
    /\ UNCHANGED <<productos, ventas, pc, ruta, body, loc, session, res,
                   inicial, adm, categorias>>

\* await calcularExistenciasPorCategoria().
InicioExistencias ==
    /\ vista.pc = "existencias"
    /\ vista' = [vista EXCEPT
          !.pc = "total",
          !.existenciasPorCategoria =
              calcularExistenciasPorCategoria(productos, categorias)]
    /\ UNCHANGED <<productos, ventas, pc, ruta, body, loc, session, res,
                   inicial, adm, categorias>>

\* await calcularTotalVendido(), then the reduce and the render.
InicioTotal ==
    /\ vista.pc = "total"
    /\ vista' = [vista EXCEPT
          !.pc = "fin",
          !.totalVendido = calcularTotalVendido(ventas),
          !.existencias = existenciasMap(vista.existenciasPorCategoria)]
    /\ UNCHANGED <<productos, ventas, pc, ruta, body, loc, session, res,
                   inicial, adm, categorias>>

\* As InitLibro, with every product in any of the categories.
InitVista ==
    /\ \E E \in SUBSET Ids :
          \E st \in [E -> 0..MaxStock], cat \in [E -> CatIds] :
              productos = [p \in E |->
                              [Doc(p, st[p]) EXCEPT !.categoriaID = cat[p]]]
    /\ inicial = productos
    /\ ventas \in {<< >>, <<VentaAnterior>>}
    /\ pc = [r \in Reqs |-> IF r = 1 THEN "idle" ELSE "ausente"]
    /\ ruta = [r \in Reqs |-> "-"]
    /\ body = [r \in Reqs |-> BodyNulo]
    /\ loc = [r \in Reqs |-> LocNulo]
    /\ session = [r \in Reqs |-> SesionNula]
    /\ res = [r \in Reqs |-> "-"]
    /\ adm = AdmNulo
    /\ categorias = CatIds
    /\ vista = VistaNula

NextVista ==
    \/ Next
    \/ EliminarCategoria
    \/ Inicio
    \/ InicioExistencias
    \/ InicioTotal

\* One sale request, category deletions and one GET /, interleaved.
SpecVista == InitVista /\ [][NextVista]_vars

\* ------------------------------------------------------- storage failures
\* The store operation request r is waiting for throws instead of being
\* applied.  In the transaction's try block the inner catch takes it and calls
\* abortTransaction; elsewhere the handler's outer catch answers 500.
Falla(r) ==
    /\ pc[r] \in {"validar", "inc", "guardar", "commit",
                  "buscar", "guardarVenta", "guardarProducto"}
    /\ IF pc[r] \in {"inc", "guardar", "commit"}
       THEN /\ pc' = [pc EXCEPT ![r] = "abort"]
            /\ UNCHANGED <<loc, res>>
       ELSE Responder(r, "500 interno")
    /\ UNCHANGED <<productos, ventas, ruta, body, session, inicial, adm,
                   categorias, vista>>

\* session.abortTransaction(): the pending writes are dropped, the documents
\* released, and the handler answers 500.
Abortar(r) ==
    /\ pc[r] = "abort"
    /\ session' = [session EXCEPT ![r] = SesionNula]
    /\ Responder(r, "500 transaccion")
    /\ UNCHANGED <<productos, ventas, ruta, body, inicial, adm, categorias, vista>>

NextF ==
    \/ Next
    \/ \E r \in Reqs : Falla(r) \/ Abortar(r)

\* The routes over a store whose operations can fail.
SpecF == Init /\ [][NextF]_vars

\* Mutant: nothing catches what abortTransaction throws; no response is sent.
AbortarFallaSinRespuesta(r) ==
    /\ pc[r] = "abort"
    /\ pc' = [pc EXCEPT ![r] = "colgado"]
    /\ UNCHANGED <<productos, ventas, ruta, body, loc, session, res, inicial,
                   adm, categorias, vista>>

\* session.abortTransaction() throws inside the inner catch: the outer catch
\* answers 500.  The transaction is left as it is on the server.
AbortarFalla(r) ==
    /\ pc[r] = "abort"
    /\ Responder(r, "500 interno")
    /\ UNCHANGED <<productos, ventas, ruta, body, session, inicial, adm,
                   categorias, vista>>

\* The server aborts a transaction its request has left open.
Expirar(r) ==
    /\ pc[r] = "fin"
    /\ session[r].activa
    /\ session' = [session EXCEPT ![r] = SesionNula]
    /\ UNCHANGED <<productos, ventas, pc, ruta, body, loc, res, inicial, adm,
                   categorias, vista>>

\* The next store operation of request r returns or throws, and the handler
\* runs on to its next await or to its response.
Paso(r) ==
    \/ Validar(r)
    \/ Inc(r)
    \/ GuardarVenta(r)
    \/ Commit(r)
    \/ VenderBuscar(r)
    \/ VenderGuardarVenta(r)
    \/ VenderGuardarProducto(r)
    \/ Falla(r)
    \/ Abortar(r)
    \/ AbortarFalla(r)

NextVivo ==
    \/ NextF
    \/ \E r \in Reqs : AbortarFalla(r) \/ Expirar(r)

\* As Init, over the stores of at most one product (a line on the other id
\* is a line on a product that does not exist), which keeps the behaviour
\* graph small.
InitVivo ==
    /\ \E E \in {S \in SUBSET Ids : Cardinality(S) <= 1} :
          \E st \in [E -> 0..MaxStock] :
              productos = [p \in E |-> Doc(p, st[p])]
    /\ inicial = productos
    /\ ventas = << >>
    /\ pc = [r \in Reqs |-> "idle"]
    /\ ruta = [r \in Reqs |-> "-"]
    /\ body = [r \in Reqs |-> BodyNulo]
    /\ loc = [r \in Reqs |-> LocNulo]
    /\ session = [r \in Reqs |-> SesionNula]
    /\ res = [r \in Reqs |-> "-"]
    /\ adm = AdmNulo
    /\ categorias = CatIds
    /\ vista = VistaNula

\* The routes over a store whose operations can fail, the abort included;
\* every store operation awaited returns or throws in the end.
SpecVivo ==
    /\ InitVivo
    /\ [][NextVivo]_vars
    /\ \A r \in Reqs : WF_vars(Paso(r)) /\ WF_vars(Expirar(r))

\* ------------------------------------------------- vocabulary of the claims
Exitos == {"200 ok"}

Termino(r) == pc[r] = "fin"

\* No other request has arrived: request r ran from the initial state, alone.
Solo(r) == \A q \in Reqs \ {r} : pc[q] \in {"idle", "ausente"}

\* Sum of the quantities the lines of cart c ask of product p.
RECURSIVE Pedido(_, _)
Pedido(c, p) ==
    IF c = << >> THEN 0
    ELSE (IF Head(c).id = p THEN Head(c).cantidad ELSE 0) + Pedido(Tail(c), p)

\* Sum over the lines of cart c of quantity times the unit price in store prods.
RECURSIVE Importe(_, _)
Importe(c, prods) ==
    IF c = << >> THEN 0
    ELSE Head(c).cantidad * prods[Head(c).id].precio + Importe(Tail(c), prods)

\* Quantity of product p that request r asks for.
Demanda(r, p) ==
    IF ruta[r] = "finalizar" THEN Pedido(body[r].cart, p)
    ELSE IF ruta[r] = "vender" /\ body[r].id = p THEN parseInt(body[r].cantidad).n
    ELSE 0

\* Quantity of product p that the items of one sale record list.
RECURSIVE CantidadEnItems(_, _)
CantidadEnItems(items, p) ==
    IF items = << >> THEN 0
    ELSE (IF Head(items).productoID = p THEN Head(items).cantidad ELSE 0)
            + CantidadEnItems(Tail(items), p)

\* Quantity of product p over all the sale records of ledger l.
RECURSIVE Vendido(_, _)
Vendido(l, p) ==
    IF l = << >> THEN 0
    ELSE CantidadEnItems(Head(l).productosVendidos, p) + Vendido(Tail(l), p)

EsCheckout(r) == ruta[r] = "finalizar" /\ ~CarritoVacio(body[r])

LineasDe(r) == {body[r].cart[k] : k \in 1..Len(body[r].cart)}

\* ------------------------------------------------------------------ claims

\* C1 (as claimed): in every reachable state every product's stock quantity
\* is greater than or equal to 0.
C1_StockNuncaNegativo ==
    \A p \in DOMAIN productos : productos[p].cantidad >= 0

\* C2 (as claimed): in every state, for every product, initial stock minus
\* current stock equals the quantity of that product over all the sale
\* records of the ledger (no stock update or delete exists in Spec).
C2_LedgerCuadraConStock ==
    \A p \in DOMAIN productos :
        inicial[p].cantidad - productos[p].cantidad = Vendido(ventas, p)

\* C3: a non-empty cart run alone, every line's product existing and every
\* line's quantity at most that product's stock, succeeds; every product's
\* stock is reduced by exactly the quantity asked of it, exactly one sale
\* record is appended, and its total is the sum over the lines of quantity
\* times unit price.
C3_CheckoutValido ==
    \A r \in Reqs :
        (/\ EsCheckout(r) /\ Termino(r) /\ Solo(r)
         /\ \A l \in LineasDe(r) :
               l.id \in DOMAIN inicial /\ l.cantidad <= inicial[l.id].cantidad)
        => /\ res[r] = "200 ok"
           /\ DOMAIN productos = DOMAIN inicial
           /\ \A p \in DOMAIN inicial :
                 productos[p].cantidad
                    = inicial[p].cantidad - Pedido(body[r].cart, p)
           /\ Len(ventas) = 1
           /\ ventas[1].totalVenta = Importe(body[r].cart, inicial)

\* C3 witness: a two-line checkout of two different products has succeeded
\* alone and changed both stocks.
C3_Witness ==
    \E r \in Reqs :
        /\ EsCheckout(r) /\ Termino(r) /\ Solo(r) /\ res[r] = "200 ok"
        /\ Len(body[r].cart) = 2
        /\ body[r].cart[1].id # body[r].cart[2].id
        /\ \A l \in LineasDe(r) : l.cantidad > 0
        /\ Len(ventas) = 1

\* C4: a cart run alone with at least one line whose quantity is greater than
\* that product's stock fails, and the inventory and the ledger equal what
\* they were before the call.
C4_CheckoutInsuficiente ==
    \A r \in Reqs :
        (/\ EsCheckout(r) /\ Termino(r) /\ Solo(r)
         /\ \E l \in LineasDe(r) :
               l.id \in DOMAIN inicial /\ l.cantidad > inicial[l.id].cantidad)
        => /\ res[r] \notin Exitos
           /\ productos = inicial
           /\ ventas = << >>

\* C4 witness: a checkout whose second line asks for more than the stock,
\* after a first line that passed validation, has been rejected.
C4_Witness ==
    \E r \in Reqs :
        /\ EsCheckout(r) /\ Termino(r) /\ Solo(r)
        /\ Len(body[r].cart) = 2
        /\ LET l1 == body[r].cart[1]
               l2 == body[r].cart[2]
           IN  /\ l1.id \in DOMAIN inicial /\ l2.id \in DOMAIN inicial
               /\ l1.cantidad > 0 /\ l1.cantidad <= inicial[l1.id].cantidad
               /\ l2.cantidad > inicial[l2.id].cantidad
        /\ res[r] = "400 stock insuficiente"

\* C5 (as claimed): a cart of two lines on the same product, with positive
\* quantities q1 and q2, run alone, succeeds exactly when q1 + q2 is at most
\* the stock, and changes nothing when it fails.
C5_LineasDuplicadas ==
    \A r \in Reqs :
        (/\ EsCheckout(r) /\ Termino(r) /\ Solo(r)
         /\ Len(body[r].cart) = 2
         /\ body[r].cart[1].id = body[r].cart[2].id
         /\ body[r].cart[1].id \in DOMAIN inicial
         /\ body[r].cart[1].cantidad > 0 /\ body[r].cart[2].cantidad > 0)
        => LET p == body[r].cart[1].id
               q == body[r].cart[1].cantidad + body[r].cart[2].cantidad
           IN  /\ (res[r] = "200 ok") <=> (q <= inicial[p].cantidad)
               /\ res[r] # "200 ok" => productos = inicial /\ ventas = << >>

\* C6 (as claimed): two quick sales of the same product, each asking for the
\* whole initial stock N > 0, end under every interleaving with exactly one
\* success, the other rejected, stock 0 and one sale record.
C6_DosVentasRapidas ==
    \A r1, r2 \in Reqs :
        (/\ r1 # r2
         /\ ruta[r1] = "vender" /\ ruta[r2] = "vender"
         /\ Termino(r1) /\ Termino(r2)
         /\ body[r1].id = body[r2].id
         /\ body[r1].id \in DOMAIN inicial
         /\ inicial[body[r1].id].cantidad > 0
         /\ Demanda(r1, body[r1].id) = inicial[body[r1].id].cantidad
         /\ Demanda(r2, body[r2].id) = inicial[body[r1].id].cantidad)
        => /\ (res[r1] = "200 ok") # (res[r2] = "200 ok")
           /\ productos[body[r1].id].cantidad = 0
           /\ Len(ventas) = 1

\* Quantity of product p asked for by the requests 1..n together.
RECURSIVE DemandaHasta(_, _)
DemandaHasta(n, p) ==
    IF n = 0 THEN 0 ELSE Demanda(n, p) + DemandaHasta(n - 1, p)

\* C7 (as claimed): when the sales of a behaviour have all ended in success,
\* the stock of every product they sold is the initial stock minus the
\* quantities they asked for.
C7_SinDecrementoPerdido ==
    (\A r \in Reqs : Termino(r) /\ res[r] = "200 ok")
    => \A p \in DOMAIN productos :
          productos[p].cantidad
             = inicial[p].cantidad - DemandaHasta(NumReq, p)

\* C8 (as claimed): a checkout that reaches its commit while some line asks
\* for more than the product's current stock ends with an error and leaves
\* the inventory and the ledger as they are.
C8_CommitReverifica ==
    [][\A r \in Reqs :
          (/\ pc[r] = "commit" /\ pc'[r] = "fin"
           /\ \E l \in LineasDe(r) :
                 l.id \in DOMAIN productos
                 /\ productos[l.id].cantidad < l.cantidad)
          => /\ res'[r] \notin Exitos
             /\ productos' = productos
             /\ ventas' = ventas]_vars

\* C9 (as claimed): a sale request that ended in an error, run alone, left
\* the inventory and the ledger as they were before the call; and whenever
\* no request is running, the ledger holds as many sale records as there were
\* requests answered with success.
C9_TodoONada ==
    /\ \A r \in Reqs :
          (Termino(r) /\ Solo(r) /\ res[r] \notin Exitos)
          => productos = inicial /\ ventas = << >>
    /\ (\A r \in Reqs : pc[r] \in {"idle", "ausente", "fin"})
       => Len(ventas) = Cardinality({r \in Reqs : res[r] \in Exitos})

\* C10: a checkout with an empty or missing cart is answered with the
\* empty-cart error on arrival, never reaches a store operation, and run alone
\* leaves the inventory and the ledger as they were.
C10_CarritoVacioRechazado ==
    \A r \in Reqs :
        (/\ ruta[r] = "finalizar"
         /\ (~body[r].tieneCart \/ body[r].cart = << >>))
        => /\ pc[r] = "fin"
           /\ res[r] = "400 carrito vacio"
           /\ session[r] = SesionNula
           /\ Solo(r) => productos = inicial /\ ventas = << >>

\* C10 witness: a request with an empty cart has been rejected.
C10_Witness ==
    \E r \in Reqs :
        /\ ruta[r] = "finalizar" /\ body[r].tieneCart /\ body[r].cart = << >>
        /\ pc[r] = "fin" /\ res[r] = "400 carrito vacio"

\* C11 (as claimed): a sale request with a quantity that is zero, negative or
\* not a number (any line of a cart, or the quantity of a quick sale) is
\* answered with an error on arrival and never reaches a store operation; no
\* sale record of the ledger lists a line whose quantity is zero or negative,
\* and no sale leaves a product with more stock than it had (no stock update
\* exists in this specification).
C11_CantidadNoPositivaRechazada ==
    /\ \A r \in Reqs :
          (\/ EsCheckout(r) /\ \E l \in LineasDe(r) : l.cantidad <= 0
           \/ ruta[r] = "vender" /\ CantidadInvalida(parseInt(body[r].cantidad)))
          => pc[r] = "fin" /\ res[r] \notin Exitos /\ session[r] = SesionNula
    /\ \A k \in 1..Len(ventas) :
          \A j \in 1..Len(ventas[k].productosVendidos) :
              ventas[k].productosVendidos[j].cantidad > 0
    /\ \A p \in DOMAIN productos :
          productos[p].cantidad <= inicial[p].cantidad

\* Line k of the cart of request r fails validation against store prods: its
\* product does not exist, or its stock is less than the quantity asked.
LineaFalla(r, k, prods) ==
    LET l == body[r].cart[k]
    IN  l.id \notin DOMAIN prods \/ prods[l.id].cantidad < l.cantidad

\* The lines of the cart of request r that fail validation against prods.
LineasQueFallan(r, prods) ==
    {k \in 1..Len(body[r].cart) : LineaFalla(r, k, prods)}

\* The least element of a non-empty set of numbers.
Minimo(S) == CHOOSE k \in S : \A j \in S : k <= j

\* C12: a checkout run alone reads its lines in cart order (line i is read
\* after the i-1 lines before it passed and were kept in order); while it
\* validates, the inventory, the ledger and its transaction are untouched;
\* and when some line fails, it ends with the error of the first failing line
\* (404 when that line's product does not exist, 400 when its stock is less
\* than the quantity), with the inventory and the ledger as they were.
C12_PrimerErrorDeValidacion ==
    \A r \in Reqs :
        /\ (pc[r] = "validar" /\ Solo(r))
           => /\ productos = inicial /\ ventas = << >>
              /\ session[r] = SesionNula
              /\ Len(loc[r].productosVendidos) = loc[r].i - 1
              /\ \A k \in 1..(loc[r].i - 1) :
                    /\ ~LineaFalla(r, k, inicial)
                    /\ loc[r].productosVendidos[k].productoID
                          = body[r].cart[k].id
        /\ (/\ EsCheckout(r) /\ Termino(r) /\ Solo(r)
            /\ LineasQueFallan(r, inicial) # {})
           => LET l == body[r].cart[Minimo(LineasQueFallan(r, inicial))]
              IN  /\ res[r] = IF l.id \notin DOMAIN inicial
                              THEN "404 no encontrado"
                              ELSE "400 stock insuficiente"
                  /\ productos = inicial /\ ventas = << >>
                  /\ session[r] = SesionNula

\* C12 witness: a checkout whose first line passed and whose second line
\* names a product that does not exist has been answered 404.
C12_Witness ==
    \E r \in Reqs :
        /\ EsCheckout(r) /\ Termino(r) /\ Solo(r)
        /\ Len(body[r].cart) = 2
        /\ ~LineaFalla(r, 1, inicial)
        /\ body[r].cart[2].id \notin DOMAIN inicial
        /\ res[r] = "404 no encontrado"

\* What POST /ventas/finalizar with the one-line cart [(p, q)] answers and
\* leaves behind when it runs alone on store prods and no store operation
\* fails: the handler's steps composed in program order.
CheckoutUnaLinea(prods, p, q) ==
    LET producto == IF p \in DOMAIN prods THEN prods[p] ELSE DocNulo
    IN  IF EsNulo(producto)
        THEN [res |-> "404 no encontrado", productos |-> prods,
              ventas |-> << >>]
        ELSE IF StockInsuficiente(producto, q)
        THEN [res |-> "400 stock insuficiente", productos |-> prods,
              ventas |-> << >>]
        ELSE [res |-> "200 ok",
              productos |-> AplicarInc(prods, Incrementar(SesionNula, p, q)),
              ventas |-> <<NuevaVenta(<<Item(producto, q)>>,
                                      0 + q * producto.precio)>>]

\* The answers of a request whose store operation threw.
ErroresDeAlmacen == {"500 interno", "500 transaccion"}

\* C13 (as claimed): a quick sale of product p with a quantity q above zero,
\* run alone over a store whose operations can fail, ends as the checkout of
\* the one-line cart [(p, q)] ends from the same initial state: with no
\* failure, the same answer, the same stock of every product and the same
\* sale record; with a failure, a storage error and the inventory and the
\* ledger as they were.
C13_VentaRapidaComoCarrito ==
    \A r \in Reqs :
        (/\ ruta[r] = "vender" /\ Termino(r) /\ Solo(r)
         /\ ~CantidadInvalida(parseInt(body[r].cantidad)))
        => LET c == CheckoutUnaLinea(inicial, body[r].id,
                                     parseInt(body[r].cantidad).n)
           IN  \/ /\ res[r] = c.res
                  /\ productos = c.productos
                  /\ ventas = c.ventas
               \/ /\ res[r] \in ErroresDeAlmacen
                  /\ productos = inicial
                  /\ ventas = << >>

\* Sum of the subtotals of the items of one sale record.
RECURSIVE SumaSubtotales(_)
SumaSubtotales(items) ==
    IF items = << >> THEN 0
    ELSE Head(items).subtotal + SumaSubtotales(Tail(items))

\* C14: every sale record of the ledger, from the cart or from the quick
\* sale, has a total equal to the sum of the subtotals of its items, and every
\* item's subtotal is its quantity times its unit price.
C14_TotalSumaSubtotales ==
    \A k \in 1..Len(ventas) :
        /\ ventas[k].totalVenta = SumaSubtotales(ventas[k].productosVendidos)
        /\ \A j \in 1..Len(ventas[k].productosVendidos) :
              LET it == ventas[k].productosVendidos[j]
              IN  it.subtotal = it.cantidad * it.precioUnitario

\* C14 witness: the ledger holds a sale record of two items of different
\* products, one of them with a quantity above one.
C14_Witness ==
    \E k \in 1..Len(ventas) :
        LET items == ventas[k].productosVendidos
        IN  /\ Len(items) = 2
            /\ items[1].productoID # items[2].productoID
            /\ items[1].cantidad > 0 /\ items[2].cantidad > 1

\* C15: the ledger only grows at its end: in every step, whatever operation
\* takes it (a sale, a stock update, a product creation or deletion, a
\* category deletion), every sale record of the ledger stays at its place
\* with every field as it was.
C15_LedgerSoloCrece ==
    [][/\ Len(ventas') >= Len(ventas)
       /\ SubSeq(ventas', 1, Len(ventas)) = ventas]_vars

\* C15 witness: the ledger holds the earlier sale of product 1 and a later
\* one, and since then product 1 has been deleted.
C15_Witness ==
    /\ Len(ventas) = 2
    /\ ventas[1] = VentaAnterior
    /\ 1 \in DOMAIN inicial /\ 1 \notin DOMAIN productos
    /\ adm.ruta = "eliminar" /\ adm.res = "msg eliminado"

\* Sum of totalVenta over the first k sale records of the ledger.
RECURSIVE SumaHasta(_)
SumaHasta(k) == IF k = 0 THEN 0 ELSE SumaHasta(k - 1) + ventas[k].totalVenta

\* The total of the sale request r, from what it asked and the prices.
TotalDe(r) ==
    IF ruta[r] = "finalizar" THEN Importe(body[r].cart, inicial)
    ELSE inicial[body[r].id].precio * parseInt(body[r].cantidad).n

\* Sum of the totals of the requests 1..n that were answered with success.
RECURSIVE TotalExitos(_)
TotalExitos(n) ==
    IF n = 0 THEN 0
    ELSE (IF res[n] \in Exitos THEN TotalDe(n) ELSE 0) + TotalExitos(n - 1)

\* C16: the step of GET / that asks for the cumulative revenue gets the sum
\* of totalVenta over the sale records the ledger holds at that moment, 0
\* when it holds none; and when no sale is running, that is the sum of the
\* totals of the sales answered with success, plus the total of the sale that
\* was in the ledger from the start, if there was one.
C16_TotalVendidoEsLaSuma ==
    [][(vista.pc = "total" /\ vista'.pc = "fin")
       => /\ vista'.totalVendido = SumaHasta(Len(ventas))
          /\ (ventas = << >> => vista'.totalVendido = 0)
          /\ (\A r \in Reqs : pc[r] \in {"idle", "ausente", "fin"})
             => vista'.totalVendido - TotalExitos(NumReq)
                   \in {0, VentaAnterior.totalVenta}]_vars

\* C16 witness: GET / has shown the revenue of a ledger of two sales, the
\* later one made by a request answered with success.
C16_Witness ==
    /\ vista.pc = "fin"
    /\ Len(ventas) = 2
    /\ res[1] = "200 ok"
    /\ ventas[2].totalVenta > 0
    /\ vista.totalVendido = ventas[1].totalVenta + ventas[2].totalVenta

\* C17 (as claimed): in every step the cumulative revenue that
\* calcularTotalVendido would return is zero or more before and after it and
\* does not go down, and no sale record with a negative total is in the
\* ledger after it.
C17_IngresoNoDecrece ==
    [][/\ calcularTotalVendido(ventas) >= 0
       /\ calcularTotalVendido(ventas') >= calcularTotalVendido(ventas)
       /\ \A k \in 1..Len(ventas') : ventas'[k].totalVenta >= 0]_vars

\* The categories that exist and that some stored product names.
CategoriasConProducto ==
    {c \in categorias : \E p \in DOMAIN productos : productos[p].categoriaID = c}

\* Sum of the stock of the products 1..n that are stored in category c.
RECURSIVE StockDeCategoria(_, _)
StockDeCategoria(c, n) ==
    IF n = 0 THEN 0
    ELSE (IF n \in DOMAIN productos /\ productos[n].categoriaID = c
          THEN productos[n].cantidad ELSE 0) + StockDeCategoria(c, n - 1)

\* C18: the step of GET / that asks for the stock by category gets a result
\* whose mapping (name to total, as the handler's reduce builds it) has as
\* keys exactly the names of the categories that have at least one product
\* at that moment, each with the sum of the stock of the products of that
\* category; a category without products is not a key.
C18_ExistenciasPorCategoria ==
    [][(vista.pc = "existencias" /\ vista'.pc = "total")
       => LET m == existenciasMap(vista'.existenciasPorCategoria)
          IN  /\ DOMAIN m = {Categoria(c).nombre : c \in CategoriasConProducto}
              /\ \A c \in CategoriasConProducto :
                    m[Categoria(c).nombre] = StockDeCategoria(c, NumProductos)
              /\ \A c \in categorias \ CategoriasConProducto :
                    Categoria(c).nombre \notin DOMAIN m]_vars

\* C18 witness: GET / has the stock by category of a store whose two products
\* are in one category, with a total of three or more, while the other
\* category exists and has no product.
C18_Witness ==
    /\ vista.pc = "total"
    /\ pc[1] = "idle" /\ adm.n = 0
    /\ DOMAIN productos = Ids
    /\ \A p \in Ids : productos[p].categoriaID = 1
    /\ categorias = CatIds
    /\ vista.existenciasPorCategoria =
          {[id |-> 1, nombre |-> Categoria(1).nombre,
            totalExistencias |-> productos[1].cantidad + productos[2].cantidad]}
    /\ productos[1].cantidad + productos[2].cantidad >= 3

\* Sale record v lists the lines request r asked for, in their order.
RegistroDe(r, v) ==
    LET items == v.productosVendidos
    IN  IF ruta[r] = "finalizar"
        THEN /\ Len(items) = Len(body[r].cart)
             /\ \A k \in 1..Len(items) :
                   /\ items[k].productoID = body[r].cart[k].id
                   /\ items[k].cantidad = body[r].cart[k].cantidad
        ELSE /\ Len(items) = 1
             /\ items[1].productoID = body[r].id
             /\ items[1].cantidad = parseInt(body[r].cantidad).n

\* C19: every sale request that has arrived ends in the end with a response,
\* under every failure of its store operations, the abort of the transaction
\* included; a response once sent is never replaced by another; and a request
\* answered with success has its sale record in the ledger.
C19_SiempreResponde ==
    /\ \A r \in Reqs :
          (pc[r] \notin {"idle", "ausente", "fin"})
             ~> (pc[r] = "fin" /\ res[r] # "-")
    /\ [][\A r \in Reqs : res[r] # "-" => res'[r] = res[r]]_vars
    /\ [](\A r \in Reqs :
             res[r] \in Exitos
             => \E k \in 1..Len(ventas) : RegistroDe(r, ventas[k]))

\* C19 witness: a checkout whose abortTransaction threw has been answered
\* 500, with its transaction still open on the server.
C19_Witness ==
    \E r \in Reqs :
        /\ ruta[r] = "finalizar" /\ Termino(r)
        /\ res[r] = "500 interno"
        /\ session[r].docs # {}

\* C20 (as claimed): in every step in which a checkout of lines with
\* quantities above zero commits, every product its sale record lists is in
\* the store and its stock goes down in that step by the quantity the record
\* lists for it; so a checkout one of whose products was deleted after the
\* validation read it does not commit.
C20_VentaSinProductoBorrado ==
    [][\A r \in Reqs :
          (/\ pc[r] = "commit" /\ pc'[r] = "fin" /\ res'[r] \in Exitos
           /\ \A l \in LineasDe(r) : l.cantidad > 0)
          => /\ Len(ventas') = Len(ventas) + 1
             /\ LET items == ventas'[Len(ventas')].productosVendidos
                IN  \A j \in 1..Len(items) :
                       LET p == items[j].productoID
                       IN  /\ p \in DOMAIN productos'
                           /\ productos'[p].cantidad
                                 = productos[p].cantidad
                                      - CantidadEnItems(items, p)]_vars

\* C21 (as claimed): in the step in which a quick sale writes the product,
\* when the last write of that product was a stock update to the value S,
\* the sale is answered with an error or the stock it leaves is S minus the
\* quantity sold.
C21_StockActualizadoNoSePierde ==
    [][\A r \in Reqs :
          (/\ ruta[r] = "vender"
           /\ pc[r] = "guardarProducto" /\ pc'[r] = "fin"
           /\ adm.ruta = "actualizar-stock"
           /\ adm.res = "msg stock actualizado"
           /\ adm.id = body[r].id)
          => \/ res'[r] \notin Exitos
             \/ productos'[body[r].id].cantidad
                   = parseInt(adm.cantidad).n - loc[r].cantidadVenta]_vars

\* The form values that are written as a whole number of zero or more.
FormasNoNegativas == {<<DigitChars[n + 1]>> : n \in 0..MaxCant}

\* The number a form value of FormasNoNegativas is written as.
ValorDe(c) == CHOOSE n \in 0..MaxCant : c = <<DigitChars[n + 1]>>

RECURSIVE SumaValores(_, _)
SumaValores(m, K) ==
    IF K = {} THEN 0
    ELSE LET k == CHOOSE x \in K : TRUE
         IN  m[k] + SumaValores(m, K \ {k})

\* Total stock of the products 1..n whose category is in the set cats.
RECURSIVE StockConCategoria(_, _)
StockConCategoria(cats, n) ==
    IF n = 0 THEN 0
    ELSE (IF n \in DOMAIN productos /\ productos[n].categoriaID \in cats
          THEN productos[n].cantidad ELSE 0) + StockConCategoria(cats, n - 1)

\* C23: the step of GET / that asks for the stock by category gets a result
\* in which no group is of a category that does not exist, and the values of
\* its mapping add up to the total stock of the products whose category
\* exists (the products of a deleted category are left out).
C23_CategoriaBorradaFuera ==
    [][(vista.pc = "existencias" /\ vista'.pc = "total")
       => LET m == existenciasMap(vista'.existenciasPorCategoria)
          IN  /\ \A e \in vista'.existenciasPorCategoria : e.id \in categorias
              /\ SumaValores(m, DOMAIN m)
                    = StockConCategoria(categorias, NumProductos)]_vars

\* C23 witness: GET / has the stock by category of a store of two products
\* with stock, one of them in a category that has been deleted, and the
\* result adds up to the stock of the other one only.
C23_Witness ==
    /\ vista.pc = "total"
    /\ pc[1] = "idle"
    /\ adm.ruta = "categorias/eliminar" /\ adm.res = "msg eliminada"
    /\ DOMAIN productos = Ids
    /\ productos[1].categoriaID \in categorias
    /\ productos[2].categoriaID \notin categorias
    /\ productos[1].cantidad > 0 /\ productos[2].cantidad > 0
    /\ vista.existenciasPorCategoria =
          {[id |-> productos[1].categoriaID,
            nombre |-> Categoria(productos[1].categoriaID).nombre,
            totalExistencias |-> productos[1].cantidad]}

====
